---- MODULE Spec2Model ----
(***************************************************************************)
(* Model of src/main.py: a bridge that reads line-delimited JSON commands  *)
(* from stdin, drives one external VLC process through its RC socket and   *)
(* writes line-delimited JSON results to stdout.                           *)
(*                                                                         *)
(* The program is single threaded; its position is pc.  The environment    *)
(* (player processes exiting, a player binding the RC port, the content of *)
(* stdin, the outcome of connect/spawn) is nondeterministic.               *)
(***************************************************************************)
EXTENDS Integers, Sequences, FiniteSets, TLC

\* Bound: number of input lines the run reads before stdin closes.
MaxLines == 4

\* Python's None for the process handle (main.py:15).
NoProc == 0

\* Identities of the processes Popen can create: at most one per input line.
Procs == 1..MaxLines

---------------------------------------------------------------------------
\* JSON values as json.loads produces them (None for an absent key, by .get).
JNull == [type |-> "null", s |-> "", n |-> 0]
JStr(x) == [type |-> "string", s |-> x, n |-> 0]
JNum(k) == [type |-> "number", s |-> "", n |-> k]

\* Python truthiness, as `if not file_path` uses it (main.py:92).
\* (TruthyNonNull: the variant `file_path is None`.)
TruthyNonNull(v) == v.type # "null"
Truthy(v) ==
    \/ v.type = "string" /\ v.s # ""
    \/ v.type = "number" /\ v.n # 0

\* str() of a value inside an f-string (main.py:115, 121).
Format(v) ==
    CASE v.type = "null" -> "None"
      [] v.type = "string" -> v.s
      [] v.type = "number" -> ToString(v.n)

\* The input lines the environment may supply.
Malformed == [kind |-> "malformed", command |-> JNull, file_path |-> JNull, track_id |-> JNull]
Scalar == [kind |-> "scalar", command |-> JNull, file_path |-> JNull, track_id |-> JNull]
Obj(c, f, t) == [kind |-> "object", command |-> c, file_path |-> f, track_id |-> t]

FilePaths == {JNull, JStr(""), JStr("a.mkv"), JStr("b.mkv"), JNum(5)}
TrackIds == {JNull, JNum(3)}

Lines ==
    {Malformed, Scalar}
    \cup {Obj(JStr("load"), f, JNull) : f \in FilePaths}
    \cup {Obj(JStr(c), JNull, t) : c \in {"set_subtitle", "set_audio"}, t \in TrackIds}
    \cup {Obj(c, JNull, JNull) : c \in {JStr("play_pause"), JStr("stop"), JStr("seek"), JNull}}

---------------------------------------------------------------------------
VARIABLES
    pc,            \* position of the single thread
    line,          \* the line being handled (command_data)
    nread,         \* number of lines read from stdin so far
    closed,        \* stdin has reached end of file
    vlc_process,   \* global vlc_process: a process id or NoProc
    current_file,  \* global current_file: a JSON value, JNull for None
    pstate,        \* OS state of each process: none / running / terminating / exited
    listener,      \* the process listening on RC_HOST:RC_PORT, or NoProc
    out,           \* result lines written to stdout while handling `line`
    trace,         \* external effects performed while handling `line`, in order
    pre,           \* the session when `line` was read
    response,      \* process_command's local `response` (RC send result), "" if unset
    prev           \* the previously handled line, its results and the session after it

vars == <<pc, line, nread, closed, vlc_process, current_file, pstate, listener, out, trace, pre,
          response, prev>>

Session == [proc |-> vlc_process, file |-> current_file]

Ev(e, tok, resp, p) == [e |-> e, tok |-> tok, resp |-> resp, p |-> p]

Init ==
    /\ pc = "read"
    /\ line = Malformed
    /\ nread = 0
    /\ closed = FALSE
    /\ vlc_process = NoProc
    /\ current_file = JNull
    /\ pstate = [p \in Procs |-> "none"]
    /\ listener = NoProc
    /\ out = <<>>
    /\ trace = <<>>
    /\ pre = [proc |-> NoProc, file |-> JNull]
    /\ response = ""
    /\ prev = [valid |-> FALSE, line |-> Malformed, out |-> <<>>,
               pre |-> [proc |-> NoProc, file |-> JNull],
               post |-> [proc |-> NoProc, file |-> JNull]]

---------------------------------------------------------------------------
\* Result lines (json.dumps of a flat dict) and fixed messages.
MsgNotFound == "VLC executable not found."
MsgFailed(e) == "Failed to start external VLC process: " \o e
MsgDied == "VLC process died immediately."

Emit(r) == out' = Append(out, r)

\* Where the loop goes after `except json.JSONDecodeError` (main.py:134-135)
\* and after `except Exception` (main.py:136-137): the next iteration.
\* (The ...Exits variants leave the loop instead.)
AfterDecodeErrorExits == "exited"
AfterDecodeError == "read"
AfterExceptionExits == "exited"
AfterException == "read"

\* send_rc_command: the possible results of connect + sendall.  A connect to
\* 127.0.0.1 is refused exactly when nothing listens on the port; with a
\* listener it succeeds (the listener receives the token) or fails otherwise.
\* (RcOutcomesSwallowsRefusal: the variant that reports a refused connect as "OK".)
RcOutcomesSwallowsRefusal ==
    IF listener # NoProc
    THEN {[resp |-> "OK", p |-> listener], [resp |-> "ERROR: timed out", p |-> NoProc]}
    ELSE {[resp |-> "OK", p |-> NoProc]}
RcOutcomes ==
    IF listener # NoProc
    THEN {[resp |-> "OK", p |-> listener], [resp |-> "ERROR: timed out", p |-> NoProc]}
    ELSE {[resp |-> "ERROR: RC not connected", p |-> NoProc]}

send_rc_command(command, o) ==
    trace' = Append(trace, Ev("rc", command, o.resp, o.p))

\* Popen.terminate(): signals a running process, does nothing to an exited one.
Terminate(p) == [pstate EXCEPT ![p] = IF @ = "running" THEN "terminating" ELSE @]

\* The id of the process the next Popen creates.
NextProc == Cardinality({p \in Procs : pstate[p] # "none"}) + 1

\* Popen.poll() is not None / Popen.wait() returns: the process has exited.
\* (HasExitedNever: the variant whose check never sees an exit.)
HasExitedNever(p) == FALSE
HasExited(p) == pstate[p] = "exited"

\* The branch of process_command's if/elif chain that `command` selects.
\* (BranchElseStop: the variant whose final else is the stop branch.)
BranchElseStop(command) ==
    IF command \in {JStr("load"), JStr("play_pause"), JStr("set_subtitle"),
                    JStr("set_audio")}
    THEN command.s
    ELSE "stop"
Branch(command) ==
    IF command \in {JStr("load"), JStr("play_pause"), JStr("stop"),
                    JStr("set_subtitle"), JStr("set_audio")}
    THEN command.s
    ELSE "unknown"

Dispatched(c) == pc = "parse" /\ line.kind = "object" /\ Branch(line.command) = c

---------------------------------------------------------------------------
\* The main loop.

\* `for line in sys.stdin`: the blocking read returns the next line.
ReadLine(l) ==
    /\ pc = "read"
    /\ ~closed
    /\ nread < MaxLines
    /\ line' = l
    /\ nread' = nread + 1
    /\ pc' = "parse"
    /\ prev' = [valid |-> nread > 0, line |-> line, out |-> out, pre |-> pre,
                post |-> Session]
    /\ pre' = Session
    /\ out' = <<>>
    /\ trace' = <<>>
    /\ response' = ""
    /\ UNCHANGED <<closed, vlc_process, current_file, pstate, listener>>

\* The writer closes stdin (environment); no line arrives after that.
CloseInput ==
    /\ ~closed
    /\ closed' = TRUE
    /\ UNCHANGED <<pc, line, nread, vlc_process, current_file, pstate, listener, out,
                   trace, pre, response, prev>>

\* The read returns end of file: the for loop ends and the program exits.
EndOfInput ==
    /\ pc = "read"
    /\ closed
    /\ pc' = "exited"
    /\ UNCHANGED <<line, nread, closed, vlc_process, current_file, pstate, listener, out, trace,
                   pre, response, prev>>

\* json.loads raises JSONDecodeError: logged to stderr, next line.
JsonDecodeError ==
    /\ pc = "parse"
    /\ line.kind = "malformed"
    /\ pc' = AfterDecodeError
    /\ UNCHANGED <<line, nread, closed, vlc_process, current_file, pstate, listener, out, trace,
                   pre, response, prev>>

\* json.loads returns a non-dict: command_data.get raises AttributeError.
NotAnObject ==
    /\ pc = "parse"
    /\ line.kind = "scalar"
    /\ pc' = AfterException
    /\ UNCHANGED <<line, nread, closed, vlc_process, current_file, pstate, listener, out, trace,
                   pre, response, prev>>

---------------------------------------------------------------------------
\* process_command, load branch, and start_vlc_rc.

LoadMissingPath ==
    /\ Dispatched("load")
    /\ ~Truthy(line.file_path)
    /\ Emit([error |-> "Missing file path"])
    /\ pc' = "read"
    /\ UNCHANGED <<line, nread, closed, vlc_process, current_file, pstate, listener, trace,
                   pre, response, prev>>

\* Path(file_path) raises TypeError for a value that is not a string.
LoadBadPath ==
    /\ Dispatched("load")
    /\ Truthy(line.file_path)
    /\ line.file_path.type # "string"
    /\ pc' = AfterException
    /\ UNCHANGED <<line, nread, closed, vlc_process, current_file, pstate, listener, out, trace,
                   pre, response, prev>>

\* Entry of start_vlc_rc: teardown if a process is tracked, else straight to
\* `current_file = file_path` and the spawn.
LoadStart ==
    /\ Dispatched("load")
    /\ Truthy(line.file_path)
    /\ line.file_path.type = "string"
    /\ IF vlc_process # NoProc
       THEN /\ pc' = "teardown_rc"
            /\ UNCHANGED current_file
       ELSE /\ pc' = "spawn"
            /\ current_file' = line.file_path
    /\ UNCHANGED <<line, nread, closed, vlc_process, pstate, listener, out, trace,
                   pre, response, prev>>

TeardownRc ==
    /\ pc = "teardown_rc"
    /\ \E o \in RcOutcomes : send_rc_command("stop", o)
    /\ pc' = "teardown_terminate"
    /\ UNCHANGED <<line, nread, closed, vlc_process, current_file, pstate, listener, out,
                   pre, response, prev>>

TeardownTerminate ==
    /\ pc = "teardown_terminate"
    /\ pstate' = Terminate(vlc_process)
    /\ trace' = Append(trace, Ev("terminate", "", "", vlc_process))
    /\ pc' = "teardown_wait"
    /\ UNCHANGED <<line, nread, closed, vlc_process, current_file, listener, out,
                   pre, response, prev>>

\* Variant: TimeoutExpired is swallowed and the load goes on to the spawn.
TeardownWaitIgnoresTimeout ==
    /\ pc = "teardown_wait"
    /\ trace' = trace \o <<Ev("wait", "", IF HasExited(vlc_process) THEN "exited" ELSE "timeout",
                               vlc_process),
                            Ev("clear", "", "", vlc_process)>>
    /\ vlc_process' = NoProc
    /\ current_file' = line.file_path
    /\ pc' = "spawn"
    /\ UNCHANGED <<line, nread, closed, pstate, listener, out, pre, response, prev>>

\* vlc_process.wait(timeout=2): returns if the process has exited by then,
\* else raises TimeoutExpired, which leaves start_vlc_rc and process_command.
TeardownWait ==
    /\ pc = "teardown_wait"
    /\ IF HasExited(vlc_process)
       THEN /\ trace' = trace \o <<Ev("wait", "", "exited", vlc_process),
                                   Ev("clear", "", "", vlc_process)>>
            /\ vlc_process' = NoProc
            /\ current_file' = line.file_path
            /\ pc' = "spawn"
       ELSE /\ trace' = Append(trace, Ev("wait", "", "timeout", vlc_process))
            /\ pc' = AfterException
            /\ UNCHANGED <<vlc_process, current_file>>
    /\ UNCHANGED <<line, nread, closed, pstate, listener, out, pre, response, prev>>

\* subprocess.Popen: success, FileNotFoundError, or another exception.
Spawn ==
    /\ pc = "spawn"
    /\ \/ /\ pstate' = [pstate EXCEPT ![NextProc] = "running"]
          /\ vlc_process' = NextProc
          /\ trace' = Append(trace, Ev("spawn", "", "ok", NextProc))
          /\ pc' = "poll"
          /\ UNCHANGED out
       \/ /\ trace' = Append(trace, Ev("spawn", "", "notfound", NoProc))
          /\ Emit([error |-> MsgNotFound])
          /\ pc' = "read"
          /\ UNCHANGED <<pstate, vlc_process>>
       \/ /\ trace' = Append(trace, Ev("spawn", "", "oserror", NoProc))
          /\ IF vlc_process # NoProc
             THEN /\ pstate' = Terminate(vlc_process)
                  /\ vlc_process' = NoProc
             ELSE UNCHANGED <<pstate, vlc_process>>
          /\ Emit([error |-> MsgFailed("OSError")])
          /\ pc' = "read"
    /\ UNCHANGED <<line, nread, closed, current_file, listener, pre, response, prev>>

\* Variant: the except branch reports the failure but keeps the dead handle.
PollKeepsHandle ==
    /\ pc = "poll"
    /\ IF HasExited(vlc_process)
       THEN /\ trace' = Append(trace, Ev("poll", "", "dead", vlc_process))
            /\ Emit([error |-> MsgFailed(MsgDied)])
       ELSE /\ trace' = Append(trace, Ev("poll", "", "alive", vlc_process))
            /\ Emit([status |-> "playing",
                     message |-> "VLC launched externally with RC interface."])
    /\ pc' = "read"
    /\ UNCHANGED <<line, nread, closed, vlc_process, current_file, pstate, listener, pre,
                   response, prev>>

\* After time.sleep(3): poll(); a dead process raises into `except Exception`.
Poll ==
    /\ pc = "poll"
    /\ IF HasExited(vlc_process)
       THEN /\ pstate' = Terminate(vlc_process)
            /\ trace' = trace \o <<Ev("poll", "", "dead", vlc_process),
                                   Ev("terminate", "", "", vlc_process)>>
            /\ vlc_process' = NoProc
            /\ Emit([error |-> MsgFailed(MsgDied)])
       ELSE /\ trace' = Append(trace, Ev("poll", "", "alive", vlc_process))
            /\ Emit([status |-> "playing",
                     message |-> "VLC launched externally with RC interface."])
            /\ UNCHANGED <<pstate, vlc_process>>
    /\ pc' = "read"
    /\ UNCHANGED <<line, nread, closed, current_file, listener, pre, response, prev>>

---------------------------------------------------------------------------
\* process_command, the other branches.

\* Variant: a failed RC send makes play_pause drop the session.
PlayPauseDropsSession ==
    /\ Dispatched("play_pause")
    /\ \E o \in RcOutcomes :
          /\ send_rc_command("pause", o)
          /\ response' = o.resp
          /\ Emit([status |-> "toggled", rc_response |-> o.resp])
          /\ vlc_process' = IF o.resp = "OK" THEN vlc_process ELSE NoProc
    /\ pc' = "read"
    /\ UNCHANGED <<line, nread, closed, current_file, pstate, listener, pre, prev>>

PlayPause ==
    /\ Dispatched("play_pause")
    /\ \E o \in RcOutcomes :
          /\ send_rc_command("pause", o)
          /\ response' = o.resp
          /\ Emit([status |-> "toggled", rc_response |-> o.resp])
    /\ pc' = "read"
    /\ UNCHANGED <<line, nread, closed, vlc_process, current_file, pstate, listener, pre, prev>>

StopRc ==
    /\ Dispatched("stop")
    /\ \E o \in RcOutcomes :
          /\ send_rc_command("stop", o)
          /\ response' = o.resp
    /\ pc' = "stop_terminate"
    /\ UNCHANGED <<line, nread, closed, vlc_process, current_file, pstate, listener, out,
                   pre, prev>>

\* Variant: stop terminates the process but keeps tracking its handle.
StopTerminateKeepsHandle ==
    /\ pc = "stop_terminate"
    /\ IF vlc_process # NoProc
       THEN /\ pstate' = Terminate(vlc_process)
            /\ trace' = Append(trace, Ev("terminate", "", "", vlc_process))
       ELSE UNCHANGED <<pstate, trace>>
    /\ Emit([status |-> "stopped", rc_response |-> response])
    /\ pc' = "read"
    /\ UNCHANGED <<line, nread, closed, vlc_process, current_file, listener, pre,
                   response, prev>>

StopTerminate ==
    /\ pc = "stop_terminate"
    /\ IF vlc_process # NoProc
       THEN /\ pstate' = Terminate(vlc_process)
            /\ trace' = trace \o <<Ev("terminate", "", "", vlc_process),
                                   Ev("clear", "", "", vlc_process)>>
            /\ vlc_process' = NoProc
       ELSE UNCHANGED <<pstate, trace, vlc_process>>
    /\ Emit([status |-> "stopped", rc_response |-> response])
    /\ pc' = "read"
    /\ UNCHANGED <<line, nread, closed, current_file, listener, pre, response, prev>>

SetSubtitle ==
    /\ Dispatched("set_subtitle")
    /\ \E o \in RcOutcomes :
          /\ send_rc_command("sub_track " \o Format(line.track_id), o)
          /\ response' = o.resp
          /\ Emit([status |-> "subtitle_set", id |-> line.track_id,
                   rc_response |-> o.resp])
    /\ pc' = "read"
    /\ UNCHANGED <<line, nread, closed, vlc_process, current_file, pstate, listener, pre, prev>>

\* Variant: set_audio sends the subtitle token.
SetAudioSendsSubTrack ==
    /\ Dispatched("set_audio")
    /\ \E o \in RcOutcomes :
          /\ send_rc_command("sub_track " \o Format(line.track_id), o)
          /\ response' = o.resp
          /\ Emit([status |-> "audio_set", id |-> line.track_id,
                   rc_response |-> o.resp])
    /\ pc' = "read"
    /\ UNCHANGED <<line, nread, closed, vlc_process, current_file, pstate, listener, pre, prev>>

SetAudio ==
    /\ Dispatched("set_audio")
    /\ \E o \in RcOutcomes :
          /\ send_rc_command("audio_track " \o Format(line.track_id), o)
          /\ response' = o.resp
          /\ Emit([status |-> "audio_set", id |-> line.track_id,
                   rc_response |-> o.resp])
    /\ pc' = "read"
    /\ UNCHANGED <<line, nread, closed, vlc_process, current_file, pstate, listener, pre, prev>>

UnknownCommand ==
    /\ Dispatched("unknown")
    /\ Emit([error |-> "Unknown command"])
    /\ pc' = "read"
    /\ UNCHANGED <<line, nread, closed, vlc_process, current_file, pstate, listener, trace,
                   pre, response, prev>>

---------------------------------------------------------------------------
\* The environment: player processes.

\* A player process exits (by itself, or after it was told to terminate).
ProcExit(p) ==
    /\ pstate[p] \in {"running", "terminating"}
    /\ pstate' = [pstate EXCEPT ![p] = "exited"]
    /\ listener' = IF listener = p THEN NoProc ELSE listener
    /\ UNCHANGED <<pc, line, nread, closed, vlc_process, current_file, out, trace, pre,
                   response, prev>>

\* A started player binds the RC port (--rc-host) if the port is free.
ProcBind(p) ==
    /\ pstate[p] = "running"
    /\ listener = NoProc
    /\ listener' = p
    /\ UNCHANGED <<pc, line, nread, closed, vlc_process, current_file, pstate, out, trace, pre,
                   response, prev>>

---------------------------------------------------------------------------
Step ==
    \/ EndOfInput
    \/ JsonDecodeError
    \/ NotAnObject
    \/ LoadMissingPath
    \/ LoadBadPath
    \/ LoadStart
    \/ TeardownRc
    \/ TeardownTerminate
    \/ TeardownWait
    \/ Spawn
    \/ Poll
    \/ PlayPause
    \/ StopRc
    \/ StopTerminate
    \/ SetSubtitle
    \/ SetAudio
    \/ UnknownCommand

Next ==
    \/ \E l \in Lines : ReadLine(l)
    \/ CloseInput
    \/ Step
    \/ \E p \in Procs : ProcExit(p)
    \/ \E p \in Procs : ProcBind(p)

Spec == Init /\ [][Next]_vars

\* The thread is never suspended forever inside a handler (every sleep,
\* connect and wait is bounded), and a read at end of file returns.
LiveSpec == Spec /\ WF_vars(Step)

---------------------------------------------------------------------------
\* Vocabulary of the properties.

\* The line read last has been handled completely: the loop is back at the
\* read (or has ended) and out/trace/pre describe that line.
Handled == nread > 0 /\ pc \in {"read", "exited"}

IsCommand(l, c) == l.kind = "object" /\ l.command = JStr(c)
IsUnknown(l) ==
    /\ l.kind = "object"
    /\ l.command \notin {JStr("load"), JStr("play_pause"), JStr("stop"),
                         JStr("set_subtitle"), JStr("set_audio")}
MissingPath(l) == IsCommand(l, "load") /\ l.file_path \in {JNull, JStr("")}
WellFormedLoad(l) == IsCommand(l, "load") /\ l.file_path.type = "string" /\ l.file_path.s # ""
\* A command as the interface documents it: a known or unknown command name,
\* and for load a file_path that is absent or a string.
WellFormed(l) ==
    /\ l.kind = "object"
    /\ IsCommand(l, "load") => (MissingPath(l) \/ WellFormedLoad(l))

IsError(r) == "error" \in DOMAIN r
HasStatus(r, st) == "status" \in DOMAIN r /\ r.status = st
EmittedError == Len(out) > 0 /\ \E i \in 1..Len(out) : IsError(out[i])

Events(e) == {i \in 1..Len(trace) : trace[i].e = e}
Alive == {p \in Procs : pstate[p] \in {"running", "terminating"}}
NoEffects == Events("rc") = {} /\ Events("spawn") = {} /\ Events("terminate") = {}

---------------------------------------------------------------------------
\* C1: every line that parses as JSON gets exactly one result line, written
\* before the next line is read, for every command in every session state and
\* for every outcome of the RC send, the spawn and the termination wait.
\* Stated for the documented commands (WellFormed).
C1_OneResultPerCommand ==
    (Handled /\ WellFormed(line)) => Len(out) = 1

\* C2: at most one player process started by the bridge is alive at any time.
C2_AtMostOneAlive == Cardinality(Alive) <= 1

C4_TeardownOrder ==
    \A i \in Events("spawn") :
        pre.proc # NoProc =>
            /\ i = 5
            /\ trace[1].e = "rc" /\ trace[1].tok = "stop"
            /\ trace[2] = Ev("terminate", "", "", pre.proc)
            /\ trace[3] = Ev("wait", "", "exited", pre.proc)
            /\ trace[4] = Ev("clear", "", "", pre.proc)

C4_TeardownBeforeSpawn ==
    /\ []C4_TeardownOrder
    /\ [][(\E p \in Procs : pstate[p] = "none" /\ pstate'[p] # "none") =>
             /\ vlc_process = NoProc
             /\ pre.proc # NoProc => HasExited(pre.proc)]_vars

\* A new process was spawned after a teardown whose RC stop was refused.
C4_Witness ==
    /\ pre.proc # NoProc
    /\ Len(trace) >= 5
    /\ trace[1] = Ev("rc", "stop", "ERROR: RC not connected", NoProc)
    /\ trace[5].e = "spawn" /\ trace[5].resp = "ok"

\* C5: two stops in a row give two "stopped" results, no handle is tracked
\* after either, and the session after the second equals the one after the
\* first.
C5_StopIdempotent ==
    (Handled /\ prev.valid /\ IsCommand(prev.line, "stop") /\ IsCommand(line, "stop")) =>
        /\ Len(prev.out) = 1 /\ HasStatus(prev.out[1], "stopped")
        /\ Len(out) = 1 /\ HasStatus(out[1], "stopped")
        /\ prev.post.proc = NoProc
        /\ vlc_process = NoProc
        /\ Session = prev.post

\* Two stops handled, the first with a session active and the RC send "OK".
C5_Witness ==
    /\ Handled /\ prev.valid
    /\ IsCommand(prev.line, "stop") /\ IsCommand(line, "stop")
    /\ prev.pre.proc # NoProc
    /\ prev.out = <<[status |-> "stopped", rc_response |-> "OK"]>>

\* C6: a line that is not JSON gives no result line, leaves the session alone,
\* sends nothing on the RC socket, and the loop reads on: a malformed line
\* followed by a stop gives exactly one result line, the one of the stop.
C6_MalformedState ==
    /\ (line.kind = "malformed" /\ nread > 0) =>
          /\ out = <<>>
          /\ trace = <<>>
          /\ Session = pre
    /\ (Handled /\ prev.valid /\ prev.line.kind = "malformed" /\ IsCommand(line, "stop")) =>
          /\ prev.out = <<>>
          /\ Len(out) = 1 /\ HasStatus(out[1], "stopped")

C6_MalformedSkipped ==
    /\ []C6_MalformedState
    /\ [][(pc = "parse" /\ line.kind = "malformed" /\ pc' # pc) => pc' = "read"]_vars

\* A malformed line with a session active, followed by a handled stop.
C6_Witness ==
    /\ Handled /\ prev.valid
    /\ prev.line.kind = "malformed"
    /\ prev.pre.proc # NoProc
    /\ IsCommand(line, "stop")
    /\ Len(out) = 1

\* C7: an unknown or missing command name gives exactly {"error": "Unknown
\* command"}, sends nothing, spawns and terminates nothing and leaves the
\* session unchanged.
C7_UnknownCommand ==
    (nread > 0 /\ pc # "parse" /\ IsUnknown(line)) =>
        /\ Handled
        /\ out = <<[error |-> "Unknown command"]>>
        /\ NoEffects
        /\ Session = pre

\* An unknown command handled while a session is active.
C7_Witness ==
    /\ Handled
    /\ line.kind = "object" /\ line.command = JStr("seek")
    /\ vlc_process # NoProc
    /\ Len(out) = 1

\* C8: a load without file_path (absent or empty) gives exactly {"error":
\* "Missing file path"}, spawns nothing, sends no RC stop, terminates nothing
\* and leaves the session unchanged.
C8_MissingFilePath ==
    (nread > 0 /\ pc # "parse" /\ MissingPath(line)) =>
        /\ Handled
        /\ out = <<[error |-> "Missing file path"]>>
        /\ NoEffects
        /\ Session = pre

\* A load with an empty file_path handled while a session is active.
C8_Witness ==
    /\ Handled
    /\ IsCommand(line, "load") /\ line.file_path = JStr("")
    /\ vlc_process # NoProc
    /\ Len(out) = 1

\* C9: play_pause, set_subtitle, set_audio or stop issued with no handle
\* tracked gets its normal result line with the connection-refused sentinel in
\* rc_response.
C9_RefusedWithoutSession ==
    (/\ Handled
     /\ pre.proc = NoProc
     /\ \E c \in {"play_pause", "set_subtitle", "set_audio", "stop"} : IsCommand(line, c)) =>
        /\ Len(out) = 1
        /\ "rc_response" \in DOMAIN out[1]
        /\ out[1].rc_response = "ERROR: RC not connected"

---------------------------------------------------------------------------
\* Effects of the line being handled, read off the trace.
Spawned == {trace[i].p : i \in {j \in Events("spawn") : trace[j].resp = "ok"}}
WaitTimedOut == \E i \in Events("wait") : trace[i].resp = "timeout"
SpawnNotFound == \E i \in Events("spawn") : trace[i].resp = "notfound"
EmittedPlaying == \E i \in 1..Len(out) : HasStatus(out[i], "playing")
RcCommand(l) ==
    \E c \in {"play_pause", "stop", "set_subtitle", "set_audio"} : IsCommand(l, c)

\* C11: after a stop the session is cleared whatever the RC send returned:
\* RC stop first, then the tracked process is terminated, and afterwards the
\* process handle and the loaded media path are both null.
C11_StopClearsSession ==
    (Handled /\ IsCommand(line, "stop")) =>
        /\ Len(trace) >= 1 /\ trace[1].e = "rc" /\ trace[1].tok = "stop"
        /\ pre.proc # NoProc =>
              Len(trace) >= 2 /\ trace[2] = Ev("terminate", "", "", pre.proc)
        /\ vlc_process = NoProc
        /\ current_file = JNull

\* C12: between commands a tracked handle refers to a process that has not
\* exited: the session is destroyed when the player exits.
C12_TrackedIsRunning ==
    (pc = "read" /\ vlc_process # NoProc) => ~HasExited(vlc_process)

\* C13: a load that fails because the executable is missing emits exactly one
\* error result and leaves the session cleared: no handle and no media path.
C13_MissingExecutableClears ==
    (Handled /\ SpawnNotFound) =>
        /\ Len(out) = 1 /\ IsError(out[1])
        /\ vlc_process = NoProc
        /\ current_file = JNull

\* C14: the wait for the prior process is bounded: when the timeout elapses
\* the load goes on to the spawn and emits exactly one result line, "playing"
\* or an error.
C14_TimeoutProceeds ==
    (Handled /\ WaitTimedOut) =>
        /\ Events("spawn") # {}
        /\ Len(out) = 1
        /\ IsError(out[1]) \/ HasStatus(out[1], "playing")

\* C15: a load emits "playing" only if the spawned process had not exited at
\* the liveness check; if it had, the load emits an error, never "playing",
\* and the handle is cleared.
C15_PollStep ==
    (pc = "poll" /\ pc' # "poll") =>
        /\ pc' = "read"
        /\ Len(out') = 1
        /\ IF pstate[vlc_process] = "exited"
           THEN IsError(out'[1]) /\ vlc_process' = NoProc
           ELSE HasStatus(out'[1], "playing") /\ vlc_process' = vlc_process

C15_PlayingOnlyIfAlive ==
    /\ [][C15_PollStep]_vars
    /\ [](EmittedPlaying =>
            /\ Len(out) = 1
            /\ \E i \in Events("poll") : trace[i].resp = "alive" /\ trace[i].p \in Spawned)

\* A load whose process had exited by the liveness check has been handled.
C15_Witness ==
    /\ Handled
    /\ \E i \in Events("poll") : trace[i].resp = "dead"
    /\ out = <<[error |-> MsgFailed(MsgDied)]>>

\* C16: for play_pause, stop, set_subtitle and set_audio the result has the
\* same status whether the send succeeded or failed, and rc_response is the
\* value the send returned: "OK" exactly when the token was delivered.
StatusOf(l) ==
    CASE IsCommand(l, "play_pause") -> "toggled"
      [] IsCommand(l, "stop") -> "stopped"
      [] IsCommand(l, "set_subtitle") -> "subtitle_set"
      [] IsCommand(l, "set_audio") -> "audio_set"

C16_RcFailureKeepsShape ==
    (nread > 0 /\ Handled /\ RcCommand(line)) =>
        /\ Len(out) = 1
        /\ HasStatus(out[1], StatusOf(line))
        /\ "rc_response" \in DOMAIN out[1]
        /\ Len(trace) >= 1 /\ trace[1].e = "rc"
        /\ out[1].rc_response = trace[1].resp
        /\ (trace[1].resp = "OK") <=> (trace[1].p # NoProc)

\* A set_subtitle whose send was refused has been handled.
C16_Witness ==
    /\ Handled
    /\ IsCommand(line, "set_subtitle")
    /\ out = <<[status |-> "subtitle_set", id |-> line.track_id,
                rc_response |-> "ERROR: RC not connected"]>>

\* C17: only load and stop change the handle: play_pause, set_subtitle,
\* set_audio, unknown commands and unparsable lines leave the handle and the
\* media path unchanged and neither spawn nor terminate a process.
LoadOrStop(l) == IsCommand(l, "load") \/ IsCommand(l, "stop")

C17_OnlyLoadAndStop ==
    /\ [][(\/ vlc_process' # vlc_process
           \/ current_file' # current_file
           \/ \E p \in Procs : pstate[p] = "none" /\ pstate'[p] # "none"
           \/ \E p \in Procs : pstate[p] = "running" /\ pstate'[p] = "terminating")
          => LoadOrStop(line)]_vars
    /\ []((nread > 0 /\ ~LoadOrStop(line)) =>
            /\ Session = pre
            /\ Events("spawn") = {}
            /\ Events("terminate") = {})

\* A play_pause whose send failed has been handled with a session active.
C17_Witness ==
    /\ Handled
    /\ IsCommand(line, "play_pause")
    /\ vlc_process # NoProc
    /\ Len(out) = 1 /\ out[1].rc_response # "OK"

\* C18: each command sends exactly one RC token, the one assigned to it:
\* pause, stop, sub_track n, audio_track n; set_subtitle and set_audio return
\* id n.
TokenOf(l) ==
    CASE IsCommand(l, "play_pause") -> "pause"
      [] IsCommand(l, "stop") -> "stop"
      [] IsCommand(l, "set_subtitle") -> "sub_track " \o ToString(l.track_id.n)
      [] IsCommand(l, "set_audio") -> "audio_track " \o ToString(l.track_id.n)

C18_TokenAndEcho ==
    (Handled /\ RcCommand(line)
        /\ (IsCommand(line, "set_subtitle") \/ IsCommand(line, "set_audio")
              => line.track_id.type = "number")) =>
        /\ Cardinality(Events("rc")) = 1
        /\ \A i \in Events("rc") : trace[i].tok = TokenOf(line)
        /\ Len(out) = 1
        /\ (IsCommand(line, "set_subtitle") \/ IsCommand(line, "set_audio")) =>
              "id" \in DOMAIN out[1] /\ out[1].id = line.track_id

\* A set_audio with track_id 3 has been handled and sent "audio_track 3".
C18_Witness ==
    /\ Handled
    /\ IsCommand(line, "set_audio") /\ line.track_id = JNum(3)
    /\ trace = <<Ev("rc", "audio_track 3", "OK", listener)>>
    /\ Len(out) = 1

\* C19: between commands a tracked handle belongs to a process spawned by a
\* load that emitted "playing": the handle in place after a command is the one
\* tracked before it or a process this command spawned and announced, it does
\* not change between commands, and a load that emitted an error or was
\* aborted in the teardown leaves no newly spawned process tracked or alive.
C19_AfterCommand ==
    Handled =>
        /\ vlc_process # NoProc =>
              \/ vlc_process = pre.proc
              \/ vlc_process \in Spawned /\ out = <<[status |-> "playing",
                     message |-> "VLC launched externally with RC interface."]>>
        /\ (IsCommand(line, "load") /\ ~EmittedPlaying) =>
              \A p \in Spawned : p # vlc_process /\ p \notin Alive

C19_TrackedWasAnnounced ==
    /\ []C19_AfterCommand
    /\ [](nread = 0 => vlc_process = NoProc)
    /\ [][pc = "read" => vlc_process' = vlc_process]_vars

\* A load spawned a process that died before the check: error, not tracked.
C19_Witness ==
    /\ Handled
    /\ IsCommand(line, "load")
    /\ Spawned # {}
    /\ EmittedError
    /\ pre.proc # NoProc

\* C20: with a session in place, every RC token whose send returns "OK" is
\* received by the process of the current session, never by a process of an
\* earlier session that was told to terminate and still holds the RC port.
C20_TokenReachesCurrentSession ==
    (Handled /\ RcCommand(line) /\ pre.proc # NoProc) =>
        \A i \in Events("rc") : trace[i].resp = "OK" => trace[i].p = pre.proc

====
